---- MODULE Spec2Model ----
(***************************************************************************)
(* Model of the configuration-search generators of model_analyzer:         *)
(*   BaseModelConfigGenerator  (config/generate/base_model_config_generator.py) *)
(*   ModelRunConfigGenerator   (config/generate/model_run_config_generator.py)  *)
(* A Python generator object is modelled by the position of its frame:     *)
(* "created" (never pulled), "suspended" (stopped at its yield) and        *)
(* "returned" (ran off its end; every later next() raises StopIteration).  *)
(***************************************************************************)
EXTENDS Integers, Sequences, FiniteSets, TLC

VARIABLES
    mcg,                   \* the BaseModelConfigGenerator instance (self._mcg)
    pacg,                  \* the current PerfAnalyzerConfigGenerator (self._pacg)
    curr_mc_measurements,  \* ModelRunConfigGenerator._curr_mc_measurements
    run,                   \* frame of ModelRunConfigGenerator.get_configs + observations
    static_call,           \* the last call of a static method of BaseModelConfigGenerator
    variant_name_manager,  \* the ModelVariantNameManager shared by all generators
    plot                   \* a Plot (plots/plot.py)

vars == <<mcg, pacg, curr_mc_measurements, run, static_call, variant_name_manager, plot>>

----------------------------------------------------------------------------
(* Bounds of the model *)

\* largest throughput a measurement reports (throughputs are 0..MaxThroughput)
MaxThroughput == 2
\* longest measurement list a driver passes to one set_last_results call
MaxMeasurements == 1
\* number of rungs of the max_batch_size ladder
MaxLadder == 4
\* largest instance count the ladder is walked for
MaxInstance == 2
\* rungs of the ladder the server generator of Spec walks
RunLadder == 2
\* largest throughput the driver of Spec reports
MaxRunThroughput == 0
\* load configurations one load sweep holds, at most
MaxLoad == 2
\* longest measurement list SpecMax passes to set_last_results
MaxListLen == 3
\* plateau notices after which SpecGen stops calling for another one
MaxNotices == 2
\* calls of _make_remote_model_config SpecRemote makes
MaxCalls == 3
\* calls of make_model_config SpecNamer makes on one name manager
MaxRequests == 3
\* largest number a configuration holds (numbers are 0..MaxScalar)
MaxScalar == 1
\* keys, at every level of nesting, of the dicts values are applied to
MaxEntries == 3
\* keys, at every level of nesting, of a value applied, of a combination
\* and of the base config a combination is applied to
MaxValueEntries == 2

\* Plot: metric values 0..MaxMetric, at most MaxPoints x values held in all,
\* at most MaxPlots plot_data calls
MaxMetric == 1

MaxPoints == 2

MaxPlots == 1

\* A measurement is modelled by its perf_throughput value; an absent
\* measurement (Python None) by the value None, which is no throughput.
None == -1

Throughputs == 0..MaxThroughput
Measurements == Throughputs \cup {None}

RECURSIVE SeqsUpTo(_, _)
SeqsUpTo(S, n) ==
    IF n = 0 THEN {<<>>}
    ELSE LET shorter == SeqsUpTo(S, n - 1)
         IN shorter \cup {Append(s, x) : s \in {t \in shorter : Len(t) = n - 1}, x \in S}

MeasurementLists == SeqsUpTo(Measurements, MaxMeasurements)

\* measurements ModelRunConfigGenerator buffers before the driver must
\* pull: one per load configuration of a sweep, and never fewer than two
MaxBuffer == IF MaxLoad > 2 THEN MaxLoad ELSE 2

\* what the driver of Spec reports for one trial: no measurement, an absent
\* one, or one measurement
RunMeasurementLists == {<<>>} \cup {<<m>> : m \in (0..MaxRunThroughput) \cup {None}}

\* Python's max() over a non-empty list of numbers
RECURSIVE max(_)
max(s) ==
    IF Len(s) = 1 THEN s[1]
    ELSE LET m == max(Tail(s)) IN IF s[1] >= m THEN s[1] ELSE m

----------------------------------------------------------------------------
(* BaseModelConfigGenerator *)

\* __init__: the state after construction; ladder and instances are the
\* search limits the strategy reads from config.  yielded, stepped,
\* produced_done, logged and logged_since_reset observe the instance: the
\* variants get_configs has yielded, the calls it has made of _step,
\* whether it ever called _get_next_model_config with _is_done() true, the
\* plateau notices written to the log, and those written since the last
\* _reset_max_batch_size.
BaseModelConfigGenerator(default_only, early_exit_enable, ladder, instances) ==
    [ default_only |-> default_only,
      max_batch_size_rungs |-> ladder,
      max_instance_count |-> instances,
      early_exit_enable |-> early_exit_enable,
      generator_started |-> FALSE,
      max_batch_size_warning_printed |-> FALSE,
      last_results |-> <<>>,
      curr_max_batch_size_throughputs |-> <<>>,
      curr_max_batch_size |-> 1,
      curr_instance_count |-> 1,
      frame |-> "created",
      config |-> <<0, 0>>,
      yielded |-> 0,
      stepped |-> 0,
      produced_done |-> FALSE,
      logged |-> 0,
      logged_since_reset |-> 0 ]

\* the strategy's _done_walking: the ladder has been walked for every
\* instance count
_done_walking(g) == g.curr_instance_count > g.max_instance_count

\* mutants of _is_done: the started test dropped; the default_only test dropped
_is_done_ignoring_started(g) == g.default_only \/ _done_walking(g)

_is_done_walking_only(g) == g.generator_started /\ _done_walking(g)

_is_done(g) == g.generator_started /\ (g.default_only \/ _done_walking(g))

\* mutant of set_last_results: the results are added to those held
set_last_results_accumulating(g, measurements) ==
    [g EXCEPT !.last_results = @ \o measurements]

set_last_results(g, measurements) == [g EXCEPT !.last_results = measurements]

\* mutant of _get_last_results_max_throughput: the first usable entry, not the largest
_get_last_results_first_throughput(g) ==
    LET throughputs == SelectSeq(g.last_results, LAMBDA m : m # None)
    IN IF throughputs = <<>> THEN None ELSE throughputs[1]

_get_last_results_max_throughput(g) ==
    LET throughputs == SelectSeq(g.last_results, LAMBDA m : m # None)
    IN IF throughputs = <<>> THEN None ELSE max(throughputs)

_last_results_erroneous(g) == _get_last_results_max_throughput(g) = None

\* mutant of _last_results_increased_throughput: a tie counts as an increase
_last_results_not_decreased_throughput(g) ==
    LET h == g.curr_max_batch_size_throughputs
    IN IF Len(h) < 2 THEN TRUE
       ELSE \A i \in 1..(Len(h) - 1) : h[Len(h)] >= h[i]

_last_results_increased_throughput(g) ==
    LET h == g.curr_max_batch_size_throughputs
    IN IF Len(h) < 2 THEN TRUE
       ELSE \A i \in 1..(Len(h) - 1) : h[Len(h)] > h[i]

_reset_max_batch_size(g) ==
    [g EXCEPT !.max_batch_size_warning_printed = FALSE,
              !.curr_max_batch_size_throughputs = <<>>,
              !.logged_since_reset = 0]

\* mutant of _print_max_batch_size_plateau_warning: the latch is not consulted
_print_max_batch_size_plateau_warning_unlatched(g) ==
    [g EXCEPT !.max_batch_size_warning_printed = TRUE,
              !.logged = @ + 1,
              !.logged_since_reset = @ + 1]

_print_max_batch_size_plateau_warning(g) ==
    IF ~g.max_batch_size_warning_printed
    THEN [g EXCEPT !.max_batch_size_warning_printed = TRUE,
                   !.logged = @ + 1,
                   !.logged_since_reset = @ + 1]
    ELSE g

----------------------------------------------------------------------------
(* The adaptive-ladder strategy behind the abstract hooks _step,           *)
(* _done_walking and _get_next_model_config.                               *)

\* the step's best value joins the history unless the results are erroneous
_step_max_batch_size(g) ==
    [g EXCEPT !.curr_max_batch_size = @ + 1,
              !.curr_max_batch_size_throughputs =
                  IF _last_results_erroneous(g) THEN @
                  ELSE Append(@, _get_last_results_max_throughput(g))]

_max_batch_size_limit_reached(g) == g.curr_max_batch_size > g.max_batch_size_rungs

\* the plateau test proper: early exit is enabled, the results are usable
\* and the latest best is not above every earlier one
_throughput_plateaued(g) ==
    /\ ~_max_batch_size_limit_reached(g)
    /\ g.early_exit_enable
    /\ ~_last_results_erroneous(g)
    /\ ~_last_results_increased_throughput(g)

_done_walking_max_batch_size(g) ==
    \/ _max_batch_size_limit_reached(g)
    \/ g.early_exit_enable /\ _last_results_erroneous(g)
    \/ _throughput_plateaued(g)

_step_instance_count(g) ==
    [g EXCEPT !.curr_instance_count = @ + 1, !.curr_max_batch_size = 1]

_step(g) ==
    LET s1 == _step_max_batch_size(g)
        s2 == IF _throughput_plateaued(s1)
              THEN _print_max_batch_size_plateau_warning(s1) ELSE s1
    IN IF _done_walking_max_batch_size(s1)
       THEN _step_instance_count(_reset_max_batch_size(s2))
       ELSE s1

_get_next_model_config(g) ==
    IF g.default_only THEN <<0, 0>>
    ELSE <<g.curr_instance_count, g.curr_max_batch_size>>

\* the statements of get_configs between two yields: the call of _step
\* after a yield, and the production of the next variant
after_yield(g) == [_step(g) EXCEPT !.stepped = @ + 1]

produce(g) ==
    [g EXCEPT !.produced_done = @ \/ _is_done(g),
              !.generator_started = TRUE,
              !.config = _get_next_model_config(g),
              !.frame = "suspended",
              !.yielded = @ + 1]

\* mutant of get_configs: the break leaves a generator that starts over
get_configs_restartable(g) ==
    LET s == IF g.frame = "suspended" THEN after_yield(g) ELSE g
    IN IF _is_done(s)
       THEN [s EXCEPT !.frame = "created", !.generator_started = FALSE]
       ELSE produce(s)

\* mutant of get_configs: the loop steps, produces and only then tests
get_configs_testing_last(g) ==
    IF g.frame = "returned" THEN g
    ELSE IF g.frame = "suspended" /\ _is_done(g) THEN [g EXCEPT !.frame = "returned"]
    ELSE produce(IF g.frame = "suspended" THEN after_yield(g) ELSE g)

\* One next() on the generator object of get_configs: resume after the
\* yield (run _step), then go round the loop to the next yield or the break.
get_configs(g) ==
    IF g.frame = "returned" THEN g
    ELSE LET s == IF g.frame = "suspended" THEN after_yield(g) ELSE g
         IN IF _is_done(s) THEN [s EXCEPT !.frame = "returned"]
            ELSE produce(s)

----------------------------------------------------------------------------
(* BaseModelConfigGenerator: the static methods that build a model config. *)
(* A Python value is a record of its type and content: a number, None, a   *)
(* string, or a dict (a function from its keys to values).                 *)

\* keys of a model configuration besides name, and keys of nested mappings
ParamKeys == {"a", "b"}
SubKeys == {"b", "c"}

PyNone == [kind |-> "none", val |-> None]
Scalar(n) == [kind |-> "scalar", val |-> n]
Str(s) == [kind |-> "str", val |-> s]
Dict(f) == [kind |-> "dict", val |-> f]

Scalars == {Scalar(n) : n \in 0..MaxScalar}

\* the keys a value holds, at every level of nesting
RECURSIVE Entries(_), EntriesOf(_, _)
EntriesOf(f, K) ==
    IF K = {} THEN 0
    ELSE LET k == CHOOSE j \in K : TRUE
         IN 1 + Entries(f[k]) + EntriesOf(f, K \ {k})

Entries(v) == IF v.kind = "dict" THEN EntriesOf(v.val, DOMAIN v.val) ELSE 0

\* the dicts over the keys K, nested dicts over SubKeys, of at most n entries
RECURSIVE MappingsOver(_, _)
MappingsOver(K, n) ==
    IF n = 0 THEN {Dict(<<>>)}
    ELSE LET inner == Scalars \cup MappingsOver(SubKeys, n - 1)
         IN {d \in {Dict(f) : f \in UNION {[S -> inner] : S \in SUBSET K}} :
                Entries(d) <= n}

\* dict_in.get(key, default) and dict_in[key] = value
dict_get(dict_in, key, default) ==
    IF key \in DOMAIN dict_in.val THEN dict_in.val[key] ELSE default

dict_set(dict_in, key, value) == Dict((key :> value) @@ dict_in.val)

\* d.items(): the pairs of d in insertion order, which for the dicts of one
\* call is KeyOrder or its reverse
KeyOrder == <<"a", "b", "c", "name">>

Reverse(s) == [i \in 1..Len(s) |-> s[Len(s) + 1 - i]]

items(d) ==
    LET order == IF static_call.reversed THEN Reverse(KeyOrder) ELSE KeyOrder
        keys == SelectSeq(order, LAMBDA k : k \in DOMAIN d.val)
    IN [i \in 1..Len(keys) |-> <<keys[i], d.val[keys[i]]>>]

\* mutant of _apply_value_to_dict: the value always replaces what was there
_apply_value_to_dict_replacing(key, value, dict_in) == dict_set(dict_in, key, value)

RECURSIVE _apply_value_to_dict(_, _, _), for_subkey(_, _)

\* the for statement of _apply_value_to_dict: each pair of value is applied
\* to the dict held at key, in place
for_subkey(pairs, dict_in) ==
    IF Len(pairs) = 0 THEN dict_in
    ELSE for_subkey(Tail(pairs),
                    _apply_value_to_dict(pairs[1][1], pairs[1][2], dict_in))

_apply_value_to_dict(key, value, dict_in) ==
    IF dict_get(dict_in, key, PyNone).kind = "dict" /\ value.kind = "dict"
    THEN dict_set(dict_in, key,
                  for_subkey(items(value), dict_get(dict_in, key, PyNone)))
    ELSE dict_set(dict_in, key, value)

\* a model: its name, its cpu_only flag and the config the repository holds
Model(model_name, cpu_only, config) ==
    [kind |-> "model", model_name |-> model_name, cpu_only |-> cpu_only,
     config |-> config]

\* a param_combo: None, or a dict given by its pairs in insertion order
ParamCombo(pairs) == [kind |-> "param_combo", val |-> pairs]

\* ModelVariantNameManager: the names issued, each with the base name and
\* the combination it was issued for, in order of issue, and every request
\* made of the manager with the name it returned
ModelVariantNameManager == [issued |-> <<>>, requests |-> <<>>]

\* a param_combo as the mapping it is, whatever the order of its pairs
combination_of(param_combo) ==
    IF param_combo.kind = "none" THEN <<>>
    ELSE LET pairs == param_combo.val
         IN [key \in {pairs[i][1] : i \in 1..Len(pairs)} |->
                pairs[CHOOSE i \in 1..Len(pairs) : pairs[i][1] = key][2]]

\* the names issued for model_name, and the one issued for the combination
issued_for(manager, model_name) ==
    {i \in 1..Len(manager.issued) : manager.issued[i].model_name = model_name}

find_variant(manager, model_name, combination) ==
    {i \in issued_for(manager, model_name) :
        manager.issued[i].combination = combination}

\* mutant of variant_name_for: the name is taken from the number of requests
variant_name_for_by_request(manager, model_name, param_combo) ==
    LET combination == combination_of(param_combo)
    IN IF DOMAIN combination = {}
       THEN Str(model_name \o "_config_default")
       ELSE Str(model_name \o "_config_" \o ToString(Len(manager.requests)))

\* the name the manager returns: the default name for no combination or
\* the empty one, the name issued before for an equal combination, and a
\* name with the next index of model_name for any other
variant_name_for(manager, model_name, param_combo) ==
    LET combination == combination_of(param_combo)
        found == find_variant(manager, model_name, combination)
    IN IF DOMAIN combination = {}
       THEN Str(model_name \o "_config_default")
       ELSE IF found # {}
       THEN manager.issued[CHOOSE i \in found : TRUE].name
       ELSE Str(model_name \o "_config_"
                    \o ToString(Cardinality(issued_for(manager, model_name))))

\* ModelVariantNameManager.get_model_variant_name on the shared manager,
\* and the manager after the request: a new name is kept
get_model_variant_name(model_name, param_combo) ==
    variant_name_for(variant_name_manager, model_name, param_combo)

after_get_model_variant_name(manager, model_name, param_combo) ==
    LET combination == combination_of(param_combo)
        name == variant_name_for(manager, model_name, param_combo)
        request == [model_name |-> model_name, combination |-> combination,
                    name |-> name]
    IN [issued |-> IF DOMAIN combination = {}
                      \/ find_variant(manager, model_name, combination) # {}
                   THEN manager.issued
                   ELSE Append(manager.issued, request),
        requests |-> Append(manager.requests, request)]

\* get_base_model_config_dict: a fresh dict loaded for the base model
get_base_model_config_dict(model) == model.config

\* the for statement of make_model_config: pairs whose value is None are
\* passed over
RECURSIVE for_key(_, _)
for_key(pairs, model_config_dict) ==
    IF Len(pairs) = 0 THEN model_config_dict
    ELSE for_key(Tail(pairs),
                 IF pairs[1][2].kind # "none"
                 THEN _apply_value_to_dict(pairs[1][1], pairs[1][2], model_config_dict)
                 ELSE model_config_dict)

\* make_model_config: the ModelConfig made from the dict, with the model's
\* cpu_only flag set on it
make_model_config(param_combo, model) ==
    LET variant_name == get_model_variant_name(model.model_name, param_combo)
        model_config_dict ==
            dict_set(get_base_model_config_dict(model), "name", variant_name)
    IN [kind |-> "model_config",
        val |-> IF param_combo.kind # "none"
                THEN for_key(param_combo.val, model_config_dict)
                ELSE model_config_dict,
        cpu_only |-> model.cpu_only]

\* no static method has been called; reversed is the insertion order of
\* the dicts that will be handed in
NoCall(reversed) ==
    [op |-> "none", reversed |-> reversed, key |-> "", value |-> PyNone,
     dict_in |-> PyNone, param_combo |-> PyNone, model |-> PyNone,
     out |-> PyNone]

----------------------------------------------------------------------------
(* BaseModelConfigGenerator in remote mode: the server is not under the    *)
(* generator's control and the model config is the one the server reports. *)

\* a generator with its client: the requests made of the server, each with
\* the _make_remote_model_config call that made it, the calls made and how
\* each ended, and the config the last call returned
RemoteModelConfigGenerator(reload_model_disable, cpu_only) ==
    [base_model_name |-> "m",
     cpu_only |-> cpu_only,
     reload_model_disable |-> reload_model_disable,
     client |-> <<>>,
     calls |-> 0,
     outcomes |-> <<>>,
     remote_config |-> PyNone] @@
    BaseModelConfigGenerator(FALSE, FALSE, 1, 1)

\* self._client.load_model / unload_model, and the query made by
\* ModelConfig.create_from_triton_api
client_request(g, request) ==
    [g EXCEPT !.client = Append(@, [call |-> g.calls,
                                    request |-> request,
                                    model_name |-> g.base_model_name])]

\* the call ends with the exception of the request that failed
raises(g) == [g EXCEPT !.outcomes = Append(@, "raised")]

\* the config the server holds for the model, with cpu_only set on it
create_from_triton_api(g) ==
    [kind |-> "model_config",
     val |-> Dict([name |-> Str(g.base_model_name)]),
     cpu_only |-> g.cpu_only]

\* mutant of _make_remote_model_config: the model is left loaded
_make_remote_model_config_leaving_loaded(g, failing) ==
    LET reload == ~g.reload_model_disable
        g0 == [g EXCEPT !.calls = @ + 1]
        g1 == IF reload THEN client_request(g0, "load_model") ELSE g0
        g2 == client_request(g1, "get_model_config")
    IN IF reload /\ failing = "load_model" THEN raises(g1)
       ELSE IF failing = "get_model_config" THEN raises(g2)
       ELSE [g2 EXCEPT !.outcomes = Append(@, "returned"),
                       !.remote_config = create_from_triton_api(g2)]

\* _make_remote_model_config, where failing is the request the server
\* fails, if any: the exception leaves the method at once
_make_remote_model_config(g, failing) ==
    LET reload == ~g.reload_model_disable
        g0 == [g EXCEPT !.calls = @ + 1]
        g1 == IF reload THEN client_request(g0, "load_model") ELSE g0
        g2 == client_request(g1, "get_model_config")
        g3 == IF reload THEN client_request(g2, "unload_model") ELSE g2
    IN IF reload /\ failing = "load_model" THEN raises(g1)
       ELSE IF failing = "get_model_config" THEN raises(g2)
       ELSE IF reload /\ failing = "unload_model" THEN raises(g3)
       ELSE [g3 EXCEPT !.outcomes = Append(@, "returned"),
                       !.remote_config = create_from_triton_api(g3)]

----------------------------------------------------------------------------
(* PerfAnalyzerConfigGenerator: the load sweep created for one variant.    *)
(* It holds n_configs load configurations and, with early exit enabled,    *)
(* stops before the end once a step's best throughput is unusable or not   *)
(* above the best seen so far.                                             *)

PerfAnalyzerConfigGenerator(variant, early_exit_enable, n_configs) ==
    [ variant |-> variant,
      early_exit_enable |-> early_exit_enable,
      n_configs |-> n_configs,
      curr |-> 1,
      last_results |-> <<>>,
      best |-> None,
      plateaued |-> FALSE,
      frame |-> "created",
      yielded |-> 0 ]

pacg_set_last_results(p, measurements) == [p EXCEPT !.last_results = measurements]

pacg_step(p) ==
    LET m == _get_last_results_max_throughput(p)
    IN [p EXCEPT !.curr = @ + 1,
                 !.plateaued = p.early_exit_enable /\ (m = None \/ m <= p.best),
                 !.best = IF m > @ THEN m ELSE @]

pacg_is_done(p) == p.curr > p.n_configs \/ p.plateaued

pacg_get_configs(p) ==
    IF p.frame = "returned" THEN p
    ELSE LET s == IF p.frame = "suspended" THEN pacg_step(p) ELSE p
         IN IF pacg_is_done(s) THEN [s EXCEPT !.frame = "returned"]
            ELSE [s EXCEPT !.frame = "suspended", !.yielded = @ + 1]

----------------------------------------------------------------------------
(* ModelRunConfigGenerator *)

\* before the first pull of get_configs the instance has no _pacg attribute
NoPacg == [frame |-> "none"]

\* The frame of get_configs, the early-exit enable and the size of the load
\* sweep taken from config, and observations of the run: the last trial
\* yielded as <<variant ordinal, load ordinal>>, the calls made to
\* _mcg.set_last_results, the reports received since the current variant
\* was pulled (reported), those of the variant drained last (drained), the
\* results _mcg held when it was last resumed (resumed_with), whether a
\* set_last_results call raised, and whether the driver has kept to one
\* report per trial (awaiting: a trial is out and not yet reported on).
ModelRunConfigGenerator(pacg_early_exit_enable, n_load) ==
    [ frame |-> "created",
      pacg_early_exit_enable |-> pacg_early_exit_enable,
      n_load |-> n_load,
      trial |-> <<0, 0>>,
      forwards |-> 0,
      reported |-> <<>>,
      drained |-> <<>>,
      resumed_with |-> <<>>,
      raised |-> FALSE,
      awaiting |-> FALSE,
      protocol_ok |-> TRUE ]

\* Python's truth value of a list and of a value: an empty list, None and
\* an empty dict are false
list_truth(l) == Len(l) > 0

truth(v) ==
    CASE v.kind = "none" -> FALSE
      [] v.kind = "dict" -> DOMAIN v.val # {}
      [] v.kind = "scalar" -> v.val # 0
      [] OTHER -> TRUE

\* config.early_exit_enable, and a model's parameters()["concurrency"] and
\* model_config_parameters()
ConfigCommandProfile(early_exit_enable) == [early_exit_enable |-> early_exit_enable]

ModelProfileSpec(concurrency, model_config_parameters) ==
    [concurrency |-> concurrency, model_config_parameters |-> model_config_parameters]

\* mutant of _determine_early_exit_enables: the two dimensions are crossed
_determine_early_exit_enables_crossed(config, model) ==
    [pacg_early_exit_enable |->
         config.early_exit_enable \/ ~truth(model.model_config_parameters),
     mcg_early_exit_enable |->
         config.early_exit_enable \/ ~list_truth(model.concurrency)]

_determine_early_exit_enables(config, model) ==
    LET early_exit_enable == config.early_exit_enable
        concurrency_specified == model.concurrency
        config_parameters_exist == model.model_config_parameters
    IN [pacg_early_exit_enable |-> early_exit_enable \/ ~list_truth(concurrency_specified),
        mcg_early_exit_enable |-> early_exit_enable \/ ~truth(config_parameters_exist)]

\* the load configurations of a sweep: one per pinned concurrency, the
\* default sweep of MaxLoad otherwise
load_sweep_size(model) ==
    IF list_truth(model.concurrency) THEN Len(model.concurrency) ELSE MaxLoad

\* ModelConfigGeneratorFactory.create_model_config_generator: a generator
\* that walks a one-rung ladder for one instance count
create_model_config_generator(default_only, early_exit_enable) ==
    BaseModelConfigGenerator(default_only, early_exit_enable, 1, 1)

\* __init__: the instance made for config and model, which it keeps
ModelRunConfigGenerator_init(config, model, default_only) ==
    LET enables == _determine_early_exit_enables(config, model)
    IN [mcg |-> create_model_config_generator(default_only, enables.mcg_early_exit_enable),
        pacg |-> NoPacg,
        curr_mc_measurements |-> <<>>,
        run |-> [config |-> config, model |-> model] @@
                ModelRunConfigGenerator(enables.pacg_early_exit_enable,
                                        load_sweep_size(model))]

\* the instance as one value: st.mcg, st.pacg, st.curr_mc_measurements, st.run
Self == [mcg |-> mcg, pacg |-> pacg,
         curr_mc_measurements |-> curr_mc_measurements, run |-> run]

_generate_model_run_config(model_config_variant, perf_analyzer_config) ==
    <<model_config_variant, perf_analyzer_config>>

\* mutant of _set_last_results_model_config_generator: an empty buffer is
\* not passed on
_set_last_results_model_config_generator_unless_empty(st) ==
    IF st.curr_mc_measurements = <<>> THEN st
    ELSE [st EXCEPT !.mcg = set_last_results(st.mcg, st.curr_mc_measurements),
                    !.curr_mc_measurements = <<>>,
                    !.run.forwards = @ + 1]

\* mutant of _set_last_results_model_config_generator: the buffer is not emptied
_set_last_results_model_config_generator_keeping(st) ==
    [st EXCEPT !.mcg = set_last_results(st.mcg, st.curr_mc_measurements),
               !.run.forwards = @ + 1]

_set_last_results_model_config_generator(st) ==
    [st EXCEPT !.mcg = set_last_results(st.mcg, st.curr_mc_measurements),
               !.curr_mc_measurements = <<>>,
               !.run.forwards = @ + 1]

\* mutant of set_last_results: a report is refused unless a trial is out
\* and not yet reported on
run_set_last_results_asserting(st, measurements) ==
    IF st.pacg = NoPacg \/ ~st.run.awaiting
    THEN [st EXCEPT !.run.raised = TRUE]
    ELSE [st EXCEPT !.pacg = pacg_set_last_results(st.pacg, measurements),
                    !.curr_mc_measurements = @ \o measurements]

\* mutant of set_last_results: the buffer is extended before _pacg is used
run_set_last_results_extending_first(st, measurements) ==
    IF st.pacg = NoPacg
    THEN [st EXCEPT !.curr_mc_measurements = @ \o measurements,
                    !.run.raised = TRUE]
    ELSE [st EXCEPT !.pacg = pacg_set_last_results(st.pacg, measurements),
                    !.curr_mc_measurements = @ \o measurements]

\* mutant of set_last_results: each report is passed on to _mcg at once
run_set_last_results_forwarding(st, measurements) ==
    IF st.pacg = NoPacg
    THEN [st EXCEPT !.run.raised = TRUE]
    ELSE [st EXCEPT !.pacg = pacg_set_last_results(st.pacg, measurements),
                    !.mcg = set_last_results(st.mcg, measurements),
                    !.curr_mc_measurements = @ \o measurements]

\* set_last_results: line 128 raises AttributeError while there is no
\* _pacg, before line 129 touches the buffer
run_set_last_results(st, measurements) ==
    IF st.pacg = NoPacg
    THEN [st EXCEPT !.run.raised = TRUE]
    ELSE [st EXCEPT !.pacg = pacg_set_last_results(st.pacg, measurements),
                    !.curr_mc_measurements = @ \o measurements]

RECURSIVE for_model_config_variant(_), for_perf_analyzer_config(_)

\* the outer for statement asks _mcg.get_configs() for its next variant
for_model_config_variant(st) ==
    LET g == get_configs(st.mcg)
    IN IF g.frame = "returned"
       THEN [st EXCEPT !.mcg = g,
                       !.run.frame = "returned",
                       !.run.resumed_with = st.mcg.last_results]
       ELSE for_perf_analyzer_config(
                [st EXCEPT !.mcg = g,
                           !.pacg = PerfAnalyzerConfigGenerator(
                                        g.yielded,
                                        st.run.pacg_early_exit_enable,
                                        st.run.n_load),
                           !.run.resumed_with = st.mcg.last_results])

\* the inner for statement asks _pacg.get_configs() for its next config:
\* a config is yielded as a trial, the end of the sweep falls through to
\* _set_last_results_model_config_generator and the next variant
for_perf_analyzer_config(st) ==
    LET p == pacg_get_configs(st.pacg)
    IN IF p.frame = "suspended"
       THEN [st EXCEPT !.pacg = p,
                       !.run.frame = "suspended",
                       !.run.trial = _generate_model_run_config(st.mcg.yielded, p.yielded)]
       ELSE for_model_config_variant(
                _set_last_results_model_config_generator([st EXCEPT !.pacg = p]))

\* one next() on the generator object of ModelRunConfigGenerator.get_configs
run_get_configs(st) ==
    CASE st.run.frame = "created" -> for_model_config_variant(st)
      [] st.run.frame = "suspended" -> for_perf_analyzer_config(st)
      [] OTHER -> st

----------------------------------------------------------------------------
(* Plot (plots/plot.py).  _data maps a model-config label to its x_data    *)
(* and y_data lists; the entry is a defaultdict(list), so a list that was  *)
(* never appended to reads as the empty list.  labels is the insertion     *)
(* order of _data's keys, lines what plot_data has drawn on the Axes.      *)
(* added, failed, raised and model_config_label observe the calls: the     *)
(* measurements each label took without raising, whether any               *)
(* add_measurement raised, whether the last call raised, and the label of  *)
(* the last add_measurement.                                               *)

Labels == {"c0", "c1"}

Tags == {"perf_latency", "perf_throughput"}

\* a Measurement: the value it holds for each metric tag, None where it
\* holds no such metric
MeasurementValues == [Tags -> (0..MaxMetric) \cup {None}]

Plot_init(x_axis, y_axis) ==
    [x_axis |-> x_axis, y_axis |-> y_axis,
     data |-> <<>>, labels |-> <<>>, lines |-> <<>>, plots |-> 0,
     added |-> [l \in Labels |-> <<>>], failed |-> FALSE, raised |-> FALSE,
     model_config_label |-> ""]

Plot == Plot_init("perf_latency", "perf_throughput")

\* measurement.get_value_of_metric(tag=tag).value(); None stands for the
\* exception the expression raises when the measurement has no such metric
get_value_of_metric(measurement, tag) == measurement[tag]

add_measurement_same_axis(p, model_config_label, measurement) ==
    LET known == model_config_label \in DOMAIN p.data
        p0 == [p EXCEPT
                  !.data = IF known THEN @
                           ELSE (model_config_label :>
                                     [x_data |-> <<>>, y_data |-> <<>>]) @@ @,
                  !.labels = IF known THEN @ ELSE Append(@, model_config_label),
                  !.model_config_label = model_config_label]
        x == get_value_of_metric(measurement, p.x_axis)
        y == get_value_of_metric(measurement, p.x_axis)
    IN IF x = None
       THEN [p0 EXCEPT !.raised = TRUE, !.failed = TRUE]
       ELSE IF y = None
       THEN [p0 EXCEPT !.data[model_config_label].x_data = Append(@, x),
                       !.raised = TRUE, !.failed = TRUE]
       ELSE [p0 EXCEPT !.data[model_config_label].x_data = Append(@, x),
                       !.data[model_config_label].y_data = Append(@, y),
                       !.added[model_config_label] = Append(@, measurement),
                       !.raised = FALSE]

\* lines 80-86.  Line 83 looks up the x_data list, then evaluates its
\* argument, then appends; line 85 does the same for y_data.  A metric the
\* measurement lacks raises after the entry was created (x) or after x_data
\* was appended to (y).
add_measurement(p, model_config_label, measurement) ==
    LET known == model_config_label \in DOMAIN p.data
        p0 == [p EXCEPT
                  !.data = IF known THEN @
                           ELSE (model_config_label :>
                                     [x_data |-> <<>>, y_data |-> <<>>]) @@ @,
                  !.labels = IF known THEN @ ELSE Append(@, model_config_label),
                  !.model_config_label = model_config_label]
        x == get_value_of_metric(measurement, p.x_axis)
        y == get_value_of_metric(measurement, p.y_axis)
    IN IF x = None
       THEN [p0 EXCEPT !.raised = TRUE, !.failed = TRUE]
       ELSE IF y = None
       THEN [p0 EXCEPT !.data[model_config_label].x_data = Append(@, x),
                       !.raised = TRUE, !.failed = TRUE]
       ELSE [p0 EXCEPT !.data[model_config_label].x_data = Append(@, x),
                       !.data[model_config_label].y_data = Append(@, y),
                       !.added[model_config_label] = Append(@, measurement),
                       !.raised = FALSE]

\* zip(xs, ys): pairs up to the shorter list
zip(xs, ys) ==
    [i \in 1..(IF Len(xs) < Len(ys) THEN Len(xs) ELSE Len(ys)) |-> <<xs[i], ys[i]>>]

\* tuple order of Python: by first component, then by second
tuple_le(a, b) == a[1] < b[1] \/ (a[1] = b[1] /\ a[2] <= b[2])

\* sorted(pairs): a new list, ascending
RECURSIVE sorted(_)
sorted(s) ==
    IF s = <<>> THEN <<>>
    ELSE LET i == CHOOSE i \in 1..Len(s) : \A j \in 1..Len(s) : tuple_le(s[i], s[j])
             rest == [k \in 1..(Len(s) - 1) |-> IF k < i THEN s[k] ELSE s[k + 1]]
         IN <<s[i]>> \o sorted(rest)

\* lines 96-99 for one label: the line drawn from its data
line_of(p, model_config_name) ==
    LET pairs == sorted(zip(p.data[model_config_name].x_data,
                            p.data[model_config_name].y_data))
    IN [label |-> model_config_name,
        x_data |-> [i \in 1..Len(pairs) |-> pairs[i][1]],
        y_data |-> [i \in 1..Len(pairs) |-> pairs[i][2]]]

\* lines 94-99.  The labels are visited in insertion order; unpacking
\* zip(*[]) raises ValueError at the first label that has no pair, after the
\* lines of the labels before it were drawn.  _data is only read.
plot_data(p) ==
    LET empty == {i \in 1..Len(p.labels) :
                      zip(p.data[p.labels[i]].x_data, p.data[p.labels[i]].y_data) = <<>>}
        drawn == IF empty = {} THEN Len(p.labels)
                 ELSE (CHOOSE i \in empty : \A j \in empty : i <= j) - 1
    IN [p EXCEPT !.lines = @ \o [i \in 1..drawn |-> line_of(p, p.labels[i])],
                 !.plots = @ + 1,
                 !.raised = empty # {}]

----------------------------------------------------------------------------
(* Spec: a ModelRunConfigGenerator and its driver, which pulls trials and  *)
(* reports measurements in any order until get_configs is exhausted.  The  *)
(* server generator walks one ladder of RunLadder rungs.                   *)

Init ==
    /\ \E d \in BOOLEAN, e \in BOOLEAN :
           mcg = BaseModelConfigGenerator(d, e, RunLadder, 1)
    /\ pacg = NoPacg
    /\ curr_mc_measurements = <<>>
    /\ \E e \in BOOLEAN, n \in 0..MaxLoad : run = ModelRunConfigGenerator(e, n)
    /\ static_call = NoCall(FALSE)
    /\ variant_name_manager = ModelVariantNameManager
    /\ plot = Plot

Becomes(st) ==
    /\ mcg' = st.mcg
    /\ pacg' = st.pacg
    /\ curr_mc_measurements' = st.curr_mc_measurements
    /\ run' = st.run
    /\ UNCHANGED <<static_call, variant_name_manager, plot>>

\* The driver's own record of the run is kept here, apart from the
\* generator's code: a pull that leaves the current variant closes its
\* reports (drained: those of the variant forwarded last, none for a
\* variant that had no trial).
Pull ==
    LET st == run_get_configs(Self)
        left == st.run.forwards - run.forwards
    IN Becomes([st EXCEPT !.run.awaiting = (st.run.frame = "suspended"),
                          !.run.protocol_ok = @ /\ ~run.awaiting,
                          !.run.reported = IF left = 0 THEN @ ELSE <<>>,
                          !.run.drained = IF left = 0 THEN @
                                           ELSE IF left = 1 THEN run.reported
                                           ELSE <<>>])

SetLastResults ==
    \E m \in RunMeasurementLists :
        /\ run.frame # "returned"
        /\ Len(curr_mc_measurements) + Len(m) <= MaxBuffer
        /\ LET st == run_set_last_results(Self, m)
           IN Becomes([st EXCEPT !.run.awaiting = FALSE,
                                 !.run.protocol_ok = @ /\ run.awaiting,
                                 !.run.reported = IF pacg = NoPacg THEN @ ELSE @ \o m])

Next == Pull \/ SetLastResults

Spec == Init /\ [][Next]_vars

----------------------------------------------------------------------------
(* SpecTurns: the ModelRunConfigGenerator of Spec under a driver that      *)
(* keeps to the protocol and keeps going: it pulls a trial, reports on it, *)
(* pulls the next                                                          *)

TurnPull == ~run.awaiting /\ Pull

TurnReport == run.awaiting /\ SetLastResults

NextTurns == TurnPull \/ TurnReport

\* The driver is weakly fair: WF_vars(NextTurns), written out with the
\* enabling condition of a step of the driver, which is that get_configs
\* is not exhausted (a pull of the exhausted generator changes nothing).
SpecTurns ==
    /\ Init
    /\ [][NextTurns]_vars
    /\ ([]<>(run.frame = "returned") \/ []<><<NextTurns>>_vars)

----------------------------------------------------------------------------
(* SpecEnables: a ModelRunConfigGenerator constructed for a config and a   *)
(* model, and its driver                                                   *)

Concurrencies == {[i \in 1..n |-> i] : n \in 0..MaxLoad}

ModelConfigParameters == {PyNone, Dict(<<>>), Dict([a |-> Scalar(0)])}

InitEnables ==
    /\ \E early_exit_enable \in BOOLEAN, concurrency \in Concurrencies,
          model_config_parameters \in ModelConfigParameters, default_only \in BOOLEAN :
           LET st == ModelRunConfigGenerator_init(
                         ConfigCommandProfile(early_exit_enable),
                         ModelProfileSpec(concurrency, model_config_parameters),
                         default_only)
           IN /\ mcg = st.mcg
              /\ pacg = st.pacg
              /\ curr_mc_measurements = st.curr_mc_measurements
              /\ run = st.run
    /\ static_call = NoCall(FALSE)
    /\ variant_name_manager = ModelVariantNameManager
    /\ plot = Plot

SpecEnables == InitEnables /\ [][Next]_vars

----------------------------------------------------------------------------
(* SpecRemote: a generator in remote mode asked for the server's config    *)
(* up to MaxCalls times, the server failing any request                    *)

InitRemote ==
    /\ \E reload_model_disable \in BOOLEAN, cpu_only \in BOOLEAN :
           mcg = RemoteModelConfigGenerator(reload_model_disable, cpu_only)
    /\ pacg = NoPacg
    /\ curr_mc_measurements = <<>>
    /\ run = ModelRunConfigGenerator(FALSE, 0)
    /\ static_call = NoCall(FALSE)
    /\ variant_name_manager = ModelVariantNameManager
    /\ plot = Plot

MakeRemoteModelConfig ==
    /\ mcg.calls < MaxCalls
    /\ \E failing \in {"none", "load_model", "get_model_config", "unload_model"} :
           mcg' = _make_remote_model_config(mcg, failing)
    /\ UNCHANGED <<pacg, curr_mc_measurements, run, static_call, variant_name_manager, plot>>

NextRemote == MakeRemoteModelConfig

SpecRemote == InitRemote /\ [][NextRemote]_vars

----------------------------------------------------------------------------
(* SpecGen: one BaseModelConfigGenerator driven directly, in any order *)

InitGen ==
    /\ \E d \in BOOLEAN, e \in BOOLEAN : mcg = BaseModelConfigGenerator(d, e, MaxLadder, MaxInstance)
    /\ pacg = NoPacg
    /\ curr_mc_measurements = <<>>
    /\ run = ModelRunConfigGenerator(FALSE, 0)
    /\ static_call = NoCall(FALSE)
    /\ variant_name_manager = ModelVariantNameManager
    /\ plot = Plot

GenPull ==
    /\ mcg' = get_configs(mcg)
    /\ UNCHANGED <<pacg, curr_mc_measurements, run, static_call, variant_name_manager, plot>>

GenSetLastResults ==
    /\ \E m \in MeasurementLists : mcg' = set_last_results(mcg, m)
    /\ UNCHANGED <<pacg, curr_mc_measurements, run, static_call, variant_name_manager, plot>>

GenPlateauWarning ==
    /\ mcg.max_batch_size_warning_printed \/ mcg.logged < MaxNotices
    /\ mcg' = _print_max_batch_size_plateau_warning(mcg)
    /\ UNCHANGED <<pacg, curr_mc_measurements, run, static_call, variant_name_manager, plot>>

GenResetMaxBatchSize ==
    /\ mcg' = _reset_max_batch_size(mcg)
    /\ UNCHANGED <<pacg, curr_mc_measurements, run, static_call, variant_name_manager, plot>>

NextGen == GenPull \/ GenSetLastResults \/ GenPlateauWarning \/ GenResetMaxBatchSize

SpecGen == InitGen /\ [][NextGen]_vars

----------------------------------------------------------------------------
(* SpecMax: a BaseModelConfigGenerator walking a two-rung ladder, fed      *)
(* measurement lists of up to MaxListLen entries                           *)

LongMeasurementLists == SeqsUpTo(Measurements, MaxListLen)

InitMax ==
    /\ \E d \in BOOLEAN, e \in BOOLEAN : mcg = BaseModelConfigGenerator(d, e, 2, 1)
    /\ pacg = NoPacg
    /\ curr_mc_measurements = <<>>
    /\ run = ModelRunConfigGenerator(FALSE, 0)
    /\ static_call = NoCall(FALSE)
    /\ variant_name_manager = ModelVariantNameManager
    /\ plot = Plot

MaxPull ==
    /\ mcg' = get_configs(mcg)
    /\ UNCHANGED <<pacg, curr_mc_measurements, run, static_call, variant_name_manager, plot>>

MaxSetLastResults ==
    /\ \E m \in LongMeasurementLists : mcg' = set_last_results(mcg, m)
    /\ UNCHANGED <<pacg, curr_mc_measurements, run, static_call, variant_name_manager, plot>>

NextMax == MaxPull \/ MaxSetLastResults

SpecMax == InitMax /\ [][NextMax]_vars

----------------------------------------------------------------------------
(* SpecConfig: one call of a static method of BaseModelConfigGenerator,    *)
(* _apply_value_to_dict or make_model_config, on inputs of bounded size    *)

Values == {PyNone} \cup Scalars \cup MappingsOver(SubKeys, MaxValueEntries)

Targets == MappingsOver(ParamKeys, MaxEntries)

\* the lists of pairs with distinct keys from K that hold at most n
\* entries, the pairs' own keys counted
RECURSIVE PairLists(_, _)
PairLists(K, n) ==
    IF n = 0 THEN {<<>>}
    ELSE {<<>>} \cup
         UNION {{<<<<k, v>>>> \o rest : rest \in PairLists(K \ {k}, n - 1 - Entries(v))} :
                    k \in K, v \in {PyNone} \cup Scalars \cup MappingsOver(SubKeys, n - 1)}

ParamCombos ==
    {PyNone} \cup {ParamCombo(pairs) :
                      pairs \in PairLists(ParamKeys \cup {"name"}, MaxValueEntries)}

Models ==
    {Model("m", cpu_only, dict_set(config, "name", Str("m"))) :
        cpu_only \in BOOLEAN, config \in MappingsOver(ParamKeys, MaxValueEntries)}

InitConfig ==
    /\ mcg = BaseModelConfigGenerator(FALSE, FALSE, MaxLadder, MaxInstance)
    /\ pacg = NoPacg
    /\ curr_mc_measurements = <<>>
    /\ run = ModelRunConfigGenerator(FALSE, 0)
    /\ \E reversed \in BOOLEAN : static_call = NoCall(reversed)
    /\ variant_name_manager = ModelVariantNameManager
    /\ plot = Plot

ApplyValueToDict ==
    /\ static_call.op = "none"
    /\ \E key \in ParamKeys, value \in Values, dict_in \in Targets :
           static_call' = [static_call EXCEPT
                              !.op = "_apply_value_to_dict",
                              !.key = key,
                              !.value = value,
                              !.dict_in = dict_in,
                              !.out = _apply_value_to_dict(key, value, dict_in)]
    /\ UNCHANGED <<mcg, pacg, curr_mc_measurements, run, variant_name_manager, plot>>

MakeModelConfig ==
    /\ static_call.op = "none"
    /\ \E param_combo \in ParamCombos, model \in Models :
           /\ static_call' = [static_call EXCEPT
                                 !.op = "make_model_config",
                                 !.param_combo = param_combo,
                                 !.model = model,
                                 !.out = make_model_config(param_combo, model)]
           /\ variant_name_manager' =
                  after_get_model_variant_name(variant_name_manager,
                                               model.model_name, param_combo)
    /\ UNCHANGED <<mcg, pacg, curr_mc_measurements, run, plot>>

NextConfig == ApplyValueToDict \/ MakeModelConfig

SpecConfig == InitConfig /\ [][NextConfig]_vars

----------------------------------------------------------------------------
(* SpecNamer: up to MaxRequests calls of make_model_config, for two base   *)
(* models, on one shared ModelVariantNameManager                           *)

NamedCombos ==
    {PyNone} \cup
    {ParamCombo(pairs) : pairs \in
        {<<>>,
         <<<<"a", Scalar(0)>>>>,
         <<<<"a", Scalar(1)>>>>,
         <<<<"a", Dict([b |-> Scalar(0)])>>>>,
         <<<<"a", Scalar(0)>>, <<"b", Scalar(0)>>>>,
         <<<<"b", Scalar(0)>>, <<"a", Scalar(0)>>>>}}

NamedModels ==
    {Model(model_name, FALSE, Dict([name |-> Str(model_name)])) :
        model_name \in {"m", "n"}}

InitNamer ==
    /\ mcg = BaseModelConfigGenerator(FALSE, FALSE, 1, 1)
    /\ pacg = NoPacg
    /\ curr_mc_measurements = <<>>
    /\ run = ModelRunConfigGenerator(FALSE, 0)
    /\ static_call = NoCall(FALSE)
    /\ variant_name_manager = ModelVariantNameManager
    /\ plot = Plot

NamerMakeModelConfig ==
    /\ Len(variant_name_manager.requests) < MaxRequests
    /\ \E param_combo \in NamedCombos, model \in NamedModels :
           /\ static_call' = [static_call EXCEPT
                                 !.op = "make_model_config",
                                 !.param_combo = param_combo,
                                 !.model = model,
                                 !.out = make_model_config(param_combo, model)]
           /\ variant_name_manager' =
                  after_get_model_variant_name(variant_name_manager,
                                               model.model_name, param_combo)
    /\ UNCHANGED <<mcg, pacg, curr_mc_measurements, run, plot>>

NextNamer == NamerMakeModelConfig

SpecNamer == InitNamer /\ [][NextNamer]_vars

----------------------------------------------------------------------------
(* SpecPlot: a Plot of two different metric tags takes measurements for two      *)
(* labels, some of them lacking a metric, and is drawn, in any order.      *)

RECURSIVE points(_, _)
points(p, ls) ==
    IF ls = <<>> THEN 0
    ELSE Len(p.data[Head(ls)].x_data) + points(p, Tail(ls))

InitPlot ==
    /\ mcg = BaseModelConfigGenerator(FALSE, FALSE, 1, 1)
    /\ pacg = NoPacg
    /\ curr_mc_measurements = <<>>
    /\ run = ModelRunConfigGenerator(FALSE, 0)
    /\ static_call = NoCall(FALSE)
    /\ variant_name_manager = ModelVariantNameManager
    /\ \E x_axis \in Tags : \E y_axis \in Tags \ {x_axis} : plot = Plot_init(x_axis, y_axis)

AddMeasurement ==
    /\ points(plot, plot.labels) < MaxPoints
    /\ \E model_config_label \in Labels, measurement \in MeasurementValues :
           plot' = add_measurement(plot, model_config_label, measurement)
    /\ UNCHANGED <<mcg, pacg, curr_mc_measurements, run, static_call, variant_name_manager>>

PlotData ==
    /\ plot.plots < MaxPlots
    /\ plot' = plot_data(plot)
    /\ UNCHANGED <<mcg, pacg, curr_mc_measurements, run, static_call, variant_name_manager>>

NextPlot == AddMeasurement \/ PlotData

SpecPlot == InitPlot /\ [][NextPlot]_vars

----------------------------------------------------------------------------
(* Claims about ModelRunConfigGenerator, checked under Spec *)

\* a step that yields a trial, and a step in which the driver reports on
\* the trial that is out
YieldsTrial == run'.frame = "suspended" /\ run'.trial # run.trial

ReportsOnTrial ==
    /\ run.frame = "suspended"
    /\ run'.frame = "suspended"
    /\ run'.trial = run.trial

\* C1: while the driver keeps to one report per trial, trials come in
\* nested order (the next load configuration of the same variant, or the
\* first one of a later variant, the very next variant when sweeps are not
\* empty), _mcg.set_last_results has been called once for every variant
\* that has been drained and for no other, and the last call carried
\* exactly the reports made for the variant drained last, in report order.
C1_NestedOrderAndOneForwardPerVariant ==
    /\ [](run.protocol_ok =>
            /\ run.forwards = mcg.yielded - (IF run.frame = "suspended" THEN 1 ELSE 0)
            /\ (run.forwards > 0 => mcg.last_results = run.drained)
            /\ (run.frame = "suspended" => run.trial = <<mcg.yielded, pacg.yielded>>))
    /\ [][run'.protocol_ok /\ YieldsTrial =>
            \/ /\ run'.trial[1] = run.trial[1]
               /\ run'.trial[2] = run.trial[2] + 1
               /\ run'.forwards = run.forwards
            \/ /\ run'.trial[1] > run.trial[1]
               /\ (run.n_load > 0 => run'.trial[1] = run.trial[1] + 1)
               /\ run'.trial[2] = 1
               /\ run'.forwards = run'.trial[1] - 1]_vars

C1_Witness ==
    /\ run.frame = "returned"
    /\ run.protocol_ok
    /\ run.trial = <<2, 2>>
    /\ run.forwards = 2
    /\ run.drained = <<None, 0>>
    /\ mcg.last_results = <<None, 0>>

\* C2: a report made while a variant is being drained goes to the current
\* load generator and onto the end of the buffer and leaves _mcg alone;
\* _mcg.set_last_results is called only by a pull that finds the load
\* generator exhausted, once, and before _mcg is resumed: the results _mcg
\* held when it was resumed are the reports of the variant just drained.
C2_BufferedUntilDrained ==
    /\ [][ReportsOnTrial =>
            /\ mcg' = mcg
            /\ run'.forwards = run.forwards
            /\ \E m \in RunMeasurementLists :
                  /\ pacg' = pacg_set_last_results(pacg, m)
                  /\ curr_mc_measurements' = curr_mc_measurements \o m]_vars
    /\ [][run'.forwards # run.forwards =>
            /\ run.frame # "returned"
            /\ pacg'.frame = "returned" \/ pacg'.variant # pacg.variant
            /\ run.frame = "suspended" /\ pacg.curr <= pacg.n_configs
                  => run'.forwards = run.forwards + 1
            /\ run'.resumed_with = run'.drained
            /\ curr_mc_measurements' = <<>>]_vars
    /\ [](run.forwards > 0 /\ run.frame # "returned" => run.resumed_with = mcg.last_results)

C2_Witness ==
    /\ run.frame = "suspended"
    /\ run.trial = <<2, 2>>
    /\ run.forwards = 1
    /\ run.resumed_with = <<0, None>>
    /\ curr_mc_measurements = <<0>>
    /\ mcg.curr_max_batch_size_throughputs = <<0>>

\* C13: a driver that pulls without having reported, or reports again on
\* the same trial, raises nothing (a report raises only before the first
\* pull); after the violation the generators are as usable as before: one
\* forward per drained variant, the trial out is the current variant's
\* current load configuration, and later trials still come in nested
\* order; what is forwarded is what was reported, whatever its length.
C13_ViolationsDoNotRaise ==
    /\ [][run'.raised # run.raised => run.frame = "created" /\ pacg = NoPacg]_vars
    /\ [](~run.protocol_ok =>
            /\ run.forwards = mcg.yielded - (IF run.frame = "suspended" THEN 1 ELSE 0)
            /\ (run.frame = "suspended" => run.trial = <<mcg.yielded, pacg.yielded>>)
            /\ (run.forwards > 0 => mcg.last_results = run.drained))
    /\ [][~run.protocol_ok /\ YieldsTrial =>
            \/ /\ run'.trial[1] = run.trial[1]
               /\ run'.trial[2] = run.trial[2] + 1
            \/ /\ run'.trial[1] > run.trial[1]
               /\ (run.n_load > 0 => run'.trial[1] = run.trial[1] + 1)
               /\ run'.trial[2] = 1]_vars

\* both variants swept to the end by a driver that never reported
C13_Witness ==
    /\ ~run.protocol_ok
    /\ ~run.raised
    /\ run.frame = "returned"
    /\ run.trial = <<2, 2>>
    /\ run.forwards = 2
    /\ mcg.last_results = <<>>

\* C17: with load sweeps that hold no configuration, get_configs yields
\* no trial, yet every variant the server generator produced got its one
\* set_last_results call, with the empty list, before the server generator
\* was resumed: the server generator holds the empty list, which counts as
\* erroneous, and took no best value from it.
C17_EmptySweepStillForwards ==
    run.n_load = 0 =>
        /\ run.frame # "suspended"
        /\ run.trial = <<0, 0>>
        /\ curr_mc_measurements = <<>>
        /\ (run.frame = "returned" =>
              /\ mcg.yielded >= 1
              /\ run.forwards = mcg.yielded
              /\ mcg.stepped = mcg.yielded
              /\ run.resumed_with = <<>>
              /\ mcg.last_results = <<>>
              /\ _last_results_erroneous(mcg)
              /\ mcg.curr_max_batch_size_throughputs = <<>>)

C17_Witness ==
    /\ run.n_load = 0
    /\ run.frame = "returned"
    /\ mcg.yielded = 2
    /\ run.forwards = 2
    /\ pacg.frame = "returned"
    /\ pacg.yielded = 0

\* C19: before the first pull there is no load generator, the buffer is
\* empty and nothing has been forwarded; a set_last_results call made then
\* raises and leaves the buffer, the server generator and the frame as
\* they were; set_last_results raises at no other time; and what is
\* forwarded later holds the reports made after the first pull only.
C19_ReportBeforeFirstPullRaises ==
    /\ [](run.frame = "created" =>
            /\ pacg = NoPacg
            /\ curr_mc_measurements = <<>>
            /\ run.forwards = 0
            /\ mcg.last_results = <<>>)
    /\ [][run.frame = "created" /\ run'.frame = "created" =>
            /\ run'.raised
            /\ curr_mc_measurements' = <<>>
            /\ pacg' = NoPacg
            /\ mcg' = mcg]_vars
    /\ [][~run.raised /\ run'.raised => pacg = NoPacg]_vars
    /\ [](run.raised /\ run.forwards > 0 => mcg.last_results = run.drained)

\* a report that raised, then both variants swept and reported on
C19_Witness ==
    /\ run.raised
    /\ run.frame = "returned"
    /\ run.trial = <<2, 2>>
    /\ run.drained = <<0, 0>>
    /\ mcg.last_results = <<0, 0>>

\* (checked under SpecTurns)
\* C16: a driver that keeps to the protocol and keeps pulling reaches the
\* end of get_configs, and at the end every variant the server generator
\* produced has had its set_last_results call and the measurement buffer
\* is empty.
C16_DrainsToExhaustion ==
    /\ <>(run.frame = "returned")
    /\ [](run.frame = "returned" =>
            /\ mcg.frame = "returned"
            /\ run.forwards = mcg.yielded
            /\ mcg.stepped = mcg.yielded
            /\ curr_mc_measurements = <<>>)

C16_Witness ==
    /\ run.frame = "returned"
    /\ run.protocol_ok
    /\ mcg.yielded = 2
    /\ run.forwards = 2
    /\ run.drained = <<0, 0>>
    /\ curr_mc_measurements = <<>>

----------------------------------------------------------------------------
(* Claims about one BaseModelConfigGenerator, checked under SpecGen *)

\* C3: in every reachable state generator_started is true exactly when
\* get_configs has been pulled at least once, and _is_done() equals
\* "pulled at least once, and default_only or _done_walking()"; so a
\* generator that was never pulled is not done, default_only or not.
C3_IsDoneNeedsStarted ==
    /\ mcg.generator_started = (mcg.frame # "created")
    /\ _is_done(mcg) = (mcg.frame # "created"
                        /\ (mcg.default_only \/ _done_walking(mcg)))
    /\ (mcg.frame = "created" => ~_is_done(mcg))

C3_Witness ==
    /\ mcg.frame = "suspended"
    /\ mcg.default_only
    /\ mcg.generator_started
    /\ _is_done(mcg)

\* C4: a default_only generator yields exactly one variant, the default
\* one: nothing before the first pull, one from it on, whatever feedback is
\* given and wherever the ladder stands, and once it is produced
\* _is_done() is true.
C4_DefaultOnlyYieldsOnce ==
    mcg.default_only =>
        /\ mcg.yielded = (IF mcg.frame = "created" THEN 0 ELSE 1)
        /\ (mcg.frame # "created" => _is_done(mcg) /\ mcg.config = <<0, 0>>)

C4_Witness ==
    /\ mcg.default_only
    /\ mcg.frame = "returned"
    /\ mcg.yielded = 1
    /\ mcg.last_results # <<>>
    /\ _done_walking(mcg) = FALSE

\* C5: the lifecycle is one-directional: generator_started never goes
\* back to false, a done generator stays done and yields no further
\* variant, and the frame only moves created -> suspended -> returned.
C5_LifecycleMonotonic ==
    [][ /\ (mcg.generator_started => mcg'.generator_started)
        /\ (_is_done(mcg) => _is_done(mcg') /\ mcg'.yielded = mcg.yielded)
        /\ (mcg.frame = "returned" => mcg'.frame = "returned")
        /\ (mcg.frame = "suspended" => mcg'.frame # "created") ]_vars

C5_Witness ==
    /\ ~mcg.default_only
    /\ mcg.frame = "returned"
    /\ _is_done(mcg)
    /\ mcg.yielded > 1

C18_SetLastResultsOverwrites ==
    /\ [][mcg'.last_results # mcg.last_results =>
            /\ mcg'.last_results \in MeasurementLists
            /\ mcg' = [mcg EXCEPT !.last_results = mcg'.last_results]]_vars
    /\ [][mcg'.frame # mcg.frame \/ mcg'.yielded # mcg.yielded
               \/ mcg'.stepped # mcg.stepped \/ mcg'.logged # mcg.logged
            => mcg'.last_results = mcg.last_results]_vars

\* results given after a best value of 1 was taken, not yet stepped on
C18_Witness ==
    /\ mcg.frame = "suspended"
    /\ mcg.generator_started
    /\ mcg.last_results = <<2>>
    /\ mcg.curr_max_batch_size_throughputs = <<1>>
    /\ mcg.max_batch_size_warning_printed

StrictlyIncreasing(h) == \A i \in 1..(Len(h) - 1) : h[i] < h[i + 1]

\* C6: the plateau test is true for a history of fewer than two entries
\* and otherwise exactly when the latest entry is above the largest
\* earlier entry (a tie is a plateau); a strictly increasing history
\* passes, a history whose latest entry does not increase does not.
C6_PlateauTest ==
    LET h == mcg.curr_max_batch_size_throughputs
        n == Len(h)
    IN /\ (n < 2 => _last_results_increased_throughput(mcg))
       /\ (n >= 2 => (_last_results_increased_throughput(mcg)
                        <=> h[n] > max(SubSeq(h, 1, n - 1))))
       /\ (StrictlyIncreasing(h) => _last_results_increased_throughput(mcg))
       /\ (n >= 2 /\ h[n] <= h[n - 1] => ~_last_results_increased_throughput(mcg))

C6_Witness ==
    /\ mcg.curr_max_batch_size_throughputs = <<1, 2, 2>>
    /\ ~_last_results_increased_throughput(mcg)

\* C7 as claimed: the plateau notice is logged at most once per instance.
C7_LoggedOncePerInstance == mcg.logged <= 1

\* C7 as amended: the plateau notice is logged at most once between two
\* consecutive calls of _reset_max_batch_size (and at most once before the
\* first), and the latch is set exactly when it has been logged since.
C7_LoggedOncePerReset ==
    /\ mcg.logged_since_reset <= 1
    /\ mcg.max_batch_size_warning_printed = (mcg.logged_since_reset = 1)

C7_Witness ==
    /\ mcg.logged = 2
    /\ mcg.logged_since_reset = 1
    /\ mcg.max_batch_size_warning_printed

\* (checked under SpecMax)
\* C8: the maximum taken over the last results is the largest throughput
\* among the entries that are not absent; with no such entry (an empty
\* list, or absent entries only) it is no value and the results count as
\* erroneous.
C8_MaxIgnoresAbsent ==
    LET r == mcg.last_results
        present == {i \in 1..Len(r) : r[i] # None}
        m == _get_last_results_max_throughput(mcg)
    IN /\ (present = {} => m = None /\ _last_results_erroneous(mcg))
       /\ (present # {} => /\ ~_last_results_erroneous(mcg)
                           /\ \E i \in present : r[i] = m
                           /\ \A i \in present : r[i] <= m)

C8_Witness ==
    /\ mcg.last_results = <<1, None, 2>>
    /\ mcg.curr_max_batch_size_throughputs = <<2>>
    /\ mcg.frame = "suspended"

----------------------------------------------------------------------------
(* Claims about the static methods, checked under SpecConfig *)

\* r is t merged key by key with v: the keys of both, a key of t that v
\* does not hold as in t, a key of v merged in turn where t and v both
\* hold a dict there, and as in v otherwise
RECURSIVE MergedKeyByKey(_, _, _)
MergedKeyByKey(r, t, v) ==
    /\ r.kind = "dict"
    /\ DOMAIN r.val = DOMAIN t.val \cup DOMAIN v.val
    /\ \A j \in DOMAIN t.val \ DOMAIN v.val : r.val[j] = t.val[j]
    /\ \A j \in DOMAIN v.val :
          IF j \in DOMAIN t.val /\ t.val[j].kind = "dict" /\ v.val[j].kind = "dict"
          THEN MergedKeyByKey(r.val[j], t.val[j], v.val[j])
          ELSE r.val[j] = v.val[j]

\* the merge rule at one key: key by key where target[key] and value are
\* both dicts, value itself otherwise
MergeRuleAt(r, key, value, target) ==
    /\ key \in DOMAIN r.val
    /\ IF key \in DOMAIN target.val
          /\ target.val[key].kind = "dict" /\ value.kind = "dict"
       THEN MergedKeyByKey(r.val[key], target.val[key], value)
       ELSE r.val[key] = value

\* C9: after _apply_value_to_dict(key, value, target), where target[key]
\* and value are both dicts target[key] is their key-by-key merge (the
\* subkeys of value overwritten, recursively, every sibling kept); in every
\* other case (key missing, a dict replaced by a number or a number by a
\* dict) target[key] is exactly value; target has its old keys and key, and
\* every other key holds what it held.
C9_MergeOrReplace ==
    static_call.op = "_apply_value_to_dict" =>
        LET r == static_call.out
            t == static_call.dict_in
        IN /\ r.kind = "dict"
           /\ DOMAIN r.val = DOMAIN t.val \cup {static_call.key}
           /\ \A j \in DOMAIN t.val \ {static_call.key} : r.val[j] = t.val[j]
           /\ MergeRuleAt(r, static_call.key, static_call.value, t)

\* key a, value {b:1}, target {a:{b:0,c:1}} gives {a:{b:1,c:1}}
C9_Witness ==
    /\ static_call.op = "_apply_value_to_dict"
    /\ static_call.key = "a"
    /\ static_call.value = Dict([b |-> Scalar(1)])
    /\ static_call.dict_in = Dict([a |-> Dict([b |-> Scalar(0), c |-> Scalar(1)])])
    /\ static_call.out = Dict([a |-> Dict([b |-> Scalar(1), c |-> Scalar(1)])])

----------------------------------------------------------------------------
(* Claims about the construction of ModelRunConfigGenerator, checked       *)
(* under SpecEnables                                                       *)

\* C11: whatever the global flag, the concurrency parameter and the model
\* config parameters are, the server generator's early exit is (flag or
\* model config parameters not pinned) and every load generator's early
\* exit is (flag or concurrency not pinned); each is false only with the
\* flag off and its own dimension pinned, whatever the other dimension is.
C11_EarlyExitEnables ==
    LET flag == run.config.early_exit_enable
        concurrency_pinned == run.model.concurrency # <<>>
        parameters_pinned ==
            /\ run.model.model_config_parameters # PyNone
            /\ run.model.model_config_parameters # Dict(<<>>)
    IN /\ mcg.early_exit_enable = (flag \/ ~parameters_pinned)
       /\ run.pacg_early_exit_enable = (flag \/ ~concurrency_pinned)
       /\ (pacg # NoPacg => pacg.early_exit_enable = (flag \/ ~concurrency_pinned))
       /\ (~mcg.early_exit_enable <=> ~flag /\ parameters_pinned)
       /\ (~run.pacg_early_exit_enable <=> ~flag /\ concurrency_pinned)

C11_Witness ==
    /\ ~run.config.early_exit_enable
    /\ run.model.concurrency = <<1>>
    /\ run.model.model_config_parameters = PyNone
    /\ pacg # NoPacg
    /\ ~pacg.early_exit_enable
    /\ mcg.early_exit_enable

----------------------------------------------------------------------------
(* Claims about remote mode, checked under SpecRemote *)

\* the requests the n-th call of _make_remote_model_config made, in order
RequestsOf(n) ==
    LET mine == SelectSeq(mcg.client, LAMBDA q : q.call = n)
    IN [i \in 1..Len(mine) |-> mine[i].request]

\* C12 as claimed: every call that returns has asked the server to load
\* the base model, then for its config, then to unload it, in that order.
C12_LoadQueryUnload ==
    \A n \in 1..mcg.calls :
        mcg.outcomes[n] = "returned" =>
            RequestsOf(n) = <<"load_model", "get_model_config", "unload_model">>

\* C12 as amended: a call that returns has made, for the base model and in
\* this order, load, query and unload when reload_model_disable is off,
\* and the query alone when it is on; so a returned call leaves no load
\* without a later unload; the config returned is the server's, with the
\* generator's cpu_only.
C12_LoadQueryUnloadUnlessDisabled ==
    /\ \A i \in 1..Len(mcg.client) : mcg.client[i].model_name = mcg.base_model_name
    /\ \A n \in 1..mcg.calls :
          mcg.outcomes[n] = "returned" =>
              /\ RequestsOf(n) =
                     IF mcg.reload_model_disable THEN <<"get_model_config">>
                     ELSE <<"load_model", "get_model_config", "unload_model">>
              /\ \A i \in 1..Len(mcg.client) :
                     mcg.client[i].call = n /\ mcg.client[i].request = "load_model" =>
                         \E j \in (i + 1)..Len(mcg.client) :
                             /\ mcg.client[j].call = n
                             /\ mcg.client[j].request = "unload_model"
    /\ (mcg.calls > 0 /\ mcg.outcomes[mcg.calls] = "returned" =>
           /\ mcg.remote_config.val = Dict([name |-> Str(mcg.base_model_name)])
           /\ mcg.remote_config.cpu_only = mcg.cpu_only)

C12_Witness ==
    /\ ~mcg.reload_model_disable
    /\ mcg.calls = 2
    /\ mcg.outcomes = <<"raised", "returned">>
    /\ Len(mcg.client) = 5
    /\ RequestsOf(2) = <<"load_model", "get_model_config", "unload_model">>

----------------------------------------------------------------------------
(* Claims about variant naming, checked under SpecNamer *)

\* C14: over the requests made of one manager, in order: two requests
\* with the same base name and equal combinations (whatever the order of
\* their pairs) got the same name; a request whose combination is not
\* empty and was not asked for that base before got a name no earlier
\* request got; two requests for one base with different combinations got
\* different names; and the empty combination, or none, got
\* <base>_config_default however many names were issued before; the
\* config made carries the name returned.
C14_NamingIdempotent ==
    LET requests == variant_name_manager.requests
    IN /\ \A j \in 1..Len(requests) :
             /\ (DOMAIN requests[j].combination = {} =>
                    requests[j].name = Str(requests[j].model_name \o "_config_default"))
             /\ \A i \in 1..(j - 1) :
                    requests[i].model_name = requests[j].model_name =>
                        (requests[i].combination = requests[j].combination
                            <=> requests[i].name = requests[j].name)
             /\ ((/\ DOMAIN requests[j].combination # {}
                   /\ \A i \in 1..(j - 1) :
                          \/ requests[i].model_name # requests[j].model_name
                          \/ requests[i].combination # requests[j].combination)
                  => \A i \in 1..(j - 1) : requests[i].name # requests[j].name)
       /\ (static_call.op = "make_model_config" =>
              static_call.out.val.val["name"] = requests[Len(requests)].name)

\* a name, the default name after it, and the first name again for the
\* same combination with its pairs in the other order
C14_Witness ==
    /\ Len(variant_name_manager.requests) = 3
    /\ variant_name_manager.requests[1].name = Str("m_config_0")
    /\ variant_name_manager.requests[2].name = Str("m_config_default")
    /\ variant_name_manager.requests[3].name = Str("m_config_0")
    /\ static_call.param_combo = ParamCombo(<<<<"b", Scalar(0)>>, <<"a", Scalar(0)>>>>)
    /\ Len(variant_name_manager.issued) = 1

----------------------------------------------------------------------------
(* Claims about Plot, checked under SpecPlot *)

\* C20: as long as no add_measurement call raised, every label's x_data and
\* y_data are as long as the list of measurements added for that label, their
\* i-th entries are the x-axis and y-axis values of the i-th of those
\* measurements, and a step changes the data of no label other than the one
\* add_measurement was called for; plot_data changes no label's data.
C20_DataAlignedPerLabel ==
    /\ [](~plot.failed =>
            \A l \in Labels :
                IF l \in DOMAIN plot.data
                THEN /\ Len(plot.data[l].x_data) = Len(plot.added[l])
                     /\ Len(plot.data[l].y_data) = Len(plot.added[l])
                     /\ \A i \in 1..Len(plot.added[l]) :
                            /\ plot.data[l].x_data[i] = plot.added[l][i][plot.x_axis]
                            /\ plot.data[l].y_data[i] = plot.added[l][i][plot.y_axis]
                ELSE plot.added[l] = <<>>)
    /\ [][\A l \in DOMAIN plot.data :
              plot'.plots # plot.plots \/ l # plot'.model_config_label
                  => l \in DOMAIN plot'.data /\ plot'.data[l] = plot.data[l]]_vars

\* two measurements added for one label in descending x order, neither call
\* raising, and the plot drawn since: the line is sorted, the data is not
C20_Witness ==
    /\ ~plot.failed
    /\ plot.x_axis = "perf_latency"
    /\ plot.labels = <<"c1">>
    /\ plot.data["c1"].x_data = <<1, 0>>
    /\ plot.data["c1"].y_data = <<0, 1>>
    /\ plot.added["c1"] = << [perf_latency |-> 1, perf_throughput |-> 0],
                             [perf_latency |-> 0, perf_throughput |-> 1] >>
    /\ plot.plots = 1
    /\ Len(plot.lines) = 1
    /\ plot.lines[1].x_data = <<0, 1>>
    /\ plot.lines[1].y_data = <<1, 0>>

====
